---- MODULE Spec2Model ----
(***************************************************************************)
(* A model of the Fibonacci heap of src/heap/fibonacci.rs: the tree node   *)
(* InternalTree<T> and the heap FibonacciHeap<T>, with T the naturals.     *)
(*                                                                         *)
(* An Option<X> is the empty tuple (None) or a one-element tuple (Some).   *)
(* A LinkedList<X> is a sequence, front first.  A panic is reported in the *)
(* `panic` field of an operation's outcome, together with the fields of    *)
(* the heap as they stand when the panic unwinds.                          *)
(***************************************************************************)
EXTENDS Integers, Sequences, FiniteSets, Bags, TLC

\* ---------------------------------------------------------------- bounds
\* Payloads are drawn from 0..MaxVal.
MaxVal == 2
\* push is offered while the size fields of the two heaps sum to less than this.
MaxSize == 5
\* The host makes at most this many calls of get_payload and on
\* children_list_mut before it merges the two trees.
MaxTreeCalls == 2

Vals == 0..MaxVal
Heaps == {1, 2}

\* ---------------------------------------------------------------- Option
None == <<>>
Some(x) == <<x>>
is_none(o) == o = <<>>
unwrap(o) == o[1]

NoPanic == ""
PanicUnwrap == "called Option::unwrap() on a None value"
PanicCompare == "Payloads can not be empty"
PanicPayload == "Payload is None"
PanicIndex == "index out of bounds"

\* ---------------------------------------------------------- InternalTree
InternalTree_init(payload) ==
    [degree |-> 0, payload |-> Some(payload), children_list |-> <<>>]

degree(self) == self.degree

peek_payload(self) == self.payload

\* is_smaller_or_equal panics when either payload has been taken.
is_smaller_or_equal_panics(internal_tree_1, internal_tree_2) ==
    is_none(peek_payload(internal_tree_1)) \/ is_none(peek_payload(internal_tree_2))

is_smaller_or_equal(internal_tree_1, internal_tree_2) ==
    unwrap(peek_payload(internal_tree_1)) <= unwrap(peek_payload(internal_tree_2))

\* Mutant of add_child: the child is appended and degree is left as it was.
add_child_forgets_degree(self, internal_tree) ==
    [self EXCEPT !.children_list = Append(@, internal_tree)]

\* Mutant of add_child: the child is put at the front of the children list.
add_child_in_front(self, internal_tree) ==
    [self EXCEPT !.children_list = <<internal_tree>> \o @, !.degree = @ + 1]

\* Mutant of add_child: degree is incremented twice for one child.
add_child_counts_twice(self, internal_tree) ==
    [self EXCEPT !.children_list = Append(@, internal_tree), !.degree = @ + 2]

add_child(self, internal_tree) ==
    [self EXCEPT !.children_list = Append(@, internal_tree), !.degree = @ + 1]

\* Mutant of InternalTree_merge: the comparison is strict, so on a tie the
\* second argument becomes the parent.
InternalTree_merge_strict(internal_tree_1, internal_tree_2) ==
    IF unwrap(peek_payload(internal_tree_1)) < unwrap(peek_payload(internal_tree_2))
    THEN add_child(internal_tree_1, internal_tree_2)
    ELSE add_child(internal_tree_2, internal_tree_1)

\* Mutant of InternalTree_merge: the comparison is the wrong way round, so the
\* larger root becomes the parent.
InternalTree_merge_flipped(internal_tree_1, internal_tree_2) ==
    IF is_smaller_or_equal(internal_tree_2, internal_tree_1)
    THEN add_child(internal_tree_1, internal_tree_2)
    ELSE add_child(internal_tree_2, internal_tree_1)

InternalTree_merge(internal_tree_1, internal_tree_2) ==
    IF is_smaller_or_equal(internal_tree_1, internal_tree_2)
    THEN add_child(internal_tree_1, internal_tree_2)
    ELSE add_child(internal_tree_2, internal_tree_1)

\* --------------------------------------------------------- FibonacciHeap
FibonacciHeap_init == [children_list |-> <<>>, size |-> 0, min_pointer |-> None]

is_empty(self) == self.size = 0

size(self) == self.size

\* An operation's outcome: the heap it leaves, what it returns, and the panic
\* message ("" when it returns normally).
Outcome(self, ret, panic) == [self |-> self, ret |-> ret, panic |-> panic]

\* Mutant of push: the comparison against min is strict, so a payload equal
\* to the minimum goes to the root list.
push_strict(self, payload) ==
    LET new_node == InternalTree_init(payload) IN
    IF is_none(self.min_pointer)
    THEN Outcome([self EXCEPT !.min_pointer = Some(new_node), !.size = @ + 1],
                 None, NoPanic)
    ELSE IF payload < unwrap(peek_payload(unwrap(self.min_pointer)))
    THEN Outcome([self EXCEPT !.min_pointer = Some(new_node),
                              !.children_list = Append(@, unwrap(self.min_pointer)),
                              !.size = @ + 1],
                 None, NoPanic)
    ELSE Outcome([self EXCEPT !.children_list = Append(@, new_node),
                              !.size = @ + 1],
                 None, NoPanic)

\* Mutant of push: the new node always goes to the root list of a non-empty
\* heap, without the comparison against min.
push_never_promotes(self, payload) ==
    LET new_node == InternalTree_init(payload) IN
    IF is_none(self.min_pointer)
    THEN Outcome([self EXCEPT !.min_pointer = Some(new_node), !.size = @ + 1],
                 None, NoPanic)
    ELSE Outcome([self EXCEPT !.children_list = Append(@, new_node),
                              !.size = @ + 1],
                 None, NoPanic)

\* Mutant of push: the branch for an empty heap returns before size is
\* incremented.
push_forgets_size(self, payload) ==
    LET new_node == InternalTree_init(payload) IN
    IF is_none(self.min_pointer)
    THEN Outcome([self EXCEPT !.min_pointer = Some(new_node)], None, NoPanic)
    ELSE IF is_smaller_or_equal(new_node, unwrap(self.min_pointer))
    THEN Outcome([self EXCEPT !.min_pointer = Some(new_node),
                              !.children_list = Append(@, unwrap(self.min_pointer)),
                              !.size = @ + 1],
                 None, NoPanic)
    ELSE Outcome([self EXCEPT !.children_list = Append(@, new_node),
                              !.size = @ + 1],
                 None, NoPanic)

push(self, payload) ==
    LET new_node == InternalTree_init(payload) IN
    IF is_none(self.min_pointer)
    THEN Outcome([self EXCEPT !.min_pointer = Some(new_node), !.size = @ + 1],
                 None, NoPanic)
    ELSE IF is_smaller_or_equal_panics(new_node, unwrap(self.min_pointer))
    THEN Outcome(self, None, PanicCompare)
    ELSE IF is_smaller_or_equal(new_node, unwrap(self.min_pointer))
    THEN Outcome([self EXCEPT !.min_pointer = Some(new_node),
                              !.children_list = Append(@, unwrap(self.min_pointer)),
                              !.size = @ + 1],
                 None, NoPanic)
    ELSE Outcome([self EXCEPT !.children_list = Append(@, new_node),
                              !.size = @ + 1],
                 None, NoPanic)

\* ((size as f32).log(1.61803_f32) + 1.0) as usize, for size in 1..32.
array_size_table ==
    << 1, 2, 3, 3, 4, 4, 5, 5, 5, 5, 5, 6, 6, 6, 6, 6,
       6, 7, 7, 7, 7, 7, 7, 7, 7, 7, 7, 7, 7, 8, 8, 8 >>

\* Mutant of array_size: the + 1.0 is left out.
array_size_without_plus_one(n) == array_size_table[n] - 1

array_size(n) == array_size_table[n]

\* Mutant of carry: the merged tree is stored back in the slot it was merged
\* in, d is not moved on.
carry_keeps_slot(x, d, a) ==
    IF d >= Len(a) THEN [a |-> a, oob |-> TRUE]
    ELSE IF ~is_none(a[d + 1])
    THEN [a |-> [a EXCEPT ![d + 1] = Some(InternalTree_merge(x, unwrap(a[d + 1])))],
          oob |-> FALSE]
    ELSE [a |-> [a EXCEPT ![d + 1] = Some(x)], oob |-> FALSE]

\* The inner loop of consolidate: x, of degree d, is carried up the array a
\* (a[d] of the code is a[d + 1] here).  oob: an index past the end was used.
RECURSIVE carry(_, _, _)
carry(x, d, a) ==
    IF d >= Len(a) THEN [a |-> a, oob |-> TRUE]
    ELSE IF ~is_none(a[d + 1])
    THEN carry(InternalTree_merge(x, unwrap(a[d + 1])), d + 1,
               [a EXCEPT ![d + 1] = None])
    ELSE [a |-> [a EXCEPT ![d + 1] = Some(x)], oob |-> FALSE]

\* The outer loop of consolidate: the trees of list are popped from the front
\* one by one.  rest: what is left of the list when the loop ends or panics.
RECURSIVE drain(_, _)
drain(list, a) ==
    IF list = <<>> THEN [a |-> a, rest |-> <<>>, oob |-> FALSE]
    ELSE LET c == carry(Head(list), degree(Head(list)), a) IN
         IF c.oob THEN [a |-> c.a, rest |-> Tail(list), oob |-> TRUE]
         ELSE drain(Tail(list), c.a)

\* Mutant of sweep: the first occupied slot becomes min and every later one
\* goes to the root list, without the comparison.
RECURSIVE sweep_keeps_first(_, _, _)
sweep_keeps_first(self, a, i) ==
    IF i >= Len(a) THEN self
    ELSE IF is_none(a[i + 1]) THEN sweep_keeps_first(self, a, i + 1)
    ELSE IF is_none(self.min_pointer)
    THEN sweep_keeps_first([self EXCEPT !.min_pointer = a[i + 1]], a, i + 1)
    ELSE sweep_keeps_first([self EXCEPT !.children_list = Append(@, unwrap(a[i + 1]))],
                           a, i + 1)

\* The last loop of consolidate, from slot i (0-based) on.
RECURSIVE sweep(_, _, _)
sweep(self, a, i) ==
    IF i >= Len(a) THEN self
    ELSE IF is_none(a[i + 1]) THEN sweep(self, a, i + 1)
    ELSE IF is_none(self.min_pointer)
    THEN sweep([self EXCEPT !.min_pointer = a[i + 1]], a, i + 1)
    ELSE IF is_smaller_or_equal(unwrap(a[i + 1]), unwrap(self.min_pointer))
    THEN sweep([self EXCEPT !.min_pointer = a[i + 1],
                            !.children_list = Append(@, unwrap(self.min_pointer))],
               a, i + 1)
    ELSE sweep([self EXCEPT !.children_list = Append(@, unwrap(a[i + 1]))],
               a, i + 1)

consolidate(self) ==
    IF is_empty(self) THEN Outcome(self, None, NoPanic)
    ELSE IF is_none(self.min_pointer) THEN Outcome(self, None, PanicUnwrap)
    ELSE LET a0 == [i \in 1..array_size(self.size) |-> None]
             dr == drain(<<unwrap(self.min_pointer)>> \o self.children_list, a0)
         IN  IF dr.oob
             THEN Outcome([self EXCEPT !.min_pointer = None,
                                       !.children_list = dr.rest],
                          None, PanicIndex)
             ELSE Outcome(sweep([self EXCEPT !.min_pointer = None,
                                             !.children_list = <<>>],
                                dr.a, 0),
                          None, NoPanic)

\* Mutant of pop: the early return for an empty heap is missing, so min is
\* unwrapped whatever the size.
pop_without_empty_check(self) ==
    IF is_none(self.min_pointer) THEN Outcome(self, None, PanicUnwrap)
    ELSE LET min_node == unwrap(self.min_pointer)
             moved == [self EXCEPT !.min_pointer = None,
                                   !.size = @ - 1,
                                   !.children_list = @ \o min_node.children_list]
         IN  IF is_empty(moved)
             THEN Outcome(moved, Some(unwrap(min_node.payload)), NoPanic)
             ELSE LET seeded ==
                          IF moved.children_list = <<>> THEN moved
                          ELSE [moved EXCEPT !.min_pointer = Some(Head(moved.children_list)),
                                             !.children_list = Tail(@)]
                      c == consolidate(seeded)
                  IN  IF c.panic # NoPanic THEN Outcome(c.self, None, c.panic)
                      ELSE Outcome(c.self, Some(unwrap(min_node.payload)), NoPanic)

pop(self) ==
    IF is_empty(self) THEN Outcome(self, None, NoPanic)
    ELSE IF is_none(self.min_pointer) THEN Outcome(self, None, PanicUnwrap)
    ELSE LET min_node == unwrap(self.min_pointer)
             moved == [self EXCEPT !.min_pointer = None,
                                   !.size = @ - 1,
                                   !.children_list = @ \o min_node.children_list]
         IN  IF is_none(min_node.payload) THEN Outcome(moved, None, PanicPayload)
             ELSE IF is_empty(moved)
             THEN Outcome(moved, Some(unwrap(min_node.payload)), NoPanic)
             ELSE LET seeded ==
                          IF moved.children_list = <<>> THEN moved
                          ELSE [moved EXCEPT !.min_pointer = Some(Head(moved.children_list)),
                                             !.children_list = Tail(@)]
                      c == consolidate(seeded)
                  IN  IF c.panic # NoPanic THEN Outcome(c.self, None, c.panic)
                      ELSE Outcome(c.self, Some(unwrap(min_node.payload)), NoPanic)

\* Mutant of merge: the root lists are joined the other way round, the second
\* heap's roots first.
merge_roots_swapped(fibonacci_heap_1, fibonacci_heap_2) ==
    LET appended == [fibonacci_heap_1 EXCEPT
                       !.children_list = fibonacci_heap_2.children_list \o @]
    IN
    IF is_none(fibonacci_heap_2.min_pointer) \/ is_none(fibonacci_heap_1.min_pointer)
    THEN Outcome(FibonacciHeap_init, None, PanicUnwrap)
    ELSE IF is_smaller_or_equal(unwrap(fibonacci_heap_2.min_pointer),
                                unwrap(fibonacci_heap_1.min_pointer))
    THEN Outcome([appended EXCEPT
                    !.min_pointer = fibonacci_heap_2.min_pointer,
                    !.children_list = Append(@, unwrap(fibonacci_heap_1.min_pointer)),
                    !.size = @ + fibonacci_heap_2.size],
                 None, NoPanic)
    ELSE LET p == push(appended,
                       unwrap(unwrap(fibonacci_heap_2.min_pointer).payload))
         IN  Outcome([p.self EXCEPT !.size = @ + (fibonacci_heap_2.size - 1)],
                     None, NoPanic)

\* Mutant of merge: the branch that re-pushes the second minimum adds the whole
\* of the second size, counting the re-pushed element twice.
merge_counts_twice(fibonacci_heap_1, fibonacci_heap_2) ==
    LET appended == [fibonacci_heap_1 EXCEPT
                       !.children_list = @ \o fibonacci_heap_2.children_list]
    IN
    IF is_none(fibonacci_heap_2.min_pointer) \/ is_none(fibonacci_heap_1.min_pointer)
    THEN Outcome(FibonacciHeap_init, None, PanicUnwrap)
    ELSE IF is_smaller_or_equal(unwrap(fibonacci_heap_2.min_pointer),
                                unwrap(fibonacci_heap_1.min_pointer))
    THEN Outcome([appended EXCEPT
                    !.min_pointer = fibonacci_heap_2.min_pointer,
                    !.children_list = Append(@, unwrap(fibonacci_heap_1.min_pointer)),
                    !.size = @ + fibonacci_heap_2.size],
                 None, NoPanic)
    ELSE LET p == push(appended,
                       unwrap(unwrap(fibonacci_heap_2.min_pointer).payload))
         IN  Outcome([p.self EXCEPT !.size = @ + fibonacci_heap_2.size],
                     None, NoPanic)

merge(fibonacci_heap_1, fibonacci_heap_2) ==
    LET appended == [fibonacci_heap_1 EXCEPT
                       !.children_list = @ \o fibonacci_heap_2.children_list]
    IN
    IF is_none(fibonacci_heap_2.min_pointer) \/ is_none(fibonacci_heap_1.min_pointer)
    THEN Outcome(FibonacciHeap_init, None, PanicUnwrap)
    ELSE IF is_smaller_or_equal_panics(unwrap(fibonacci_heap_2.min_pointer),
                                       unwrap(fibonacci_heap_1.min_pointer))
    THEN Outcome(FibonacciHeap_init, None, PanicCompare)
    ELSE IF is_smaller_or_equal(unwrap(fibonacci_heap_2.min_pointer),
                                unwrap(fibonacci_heap_1.min_pointer))
    THEN Outcome([appended EXCEPT
                    !.min_pointer = fibonacci_heap_2.min_pointer,
                    !.children_list = Append(@, unwrap(fibonacci_heap_1.min_pointer)),
                    !.size = @ + fibonacci_heap_2.size],
                 None, NoPanic)
    ELSE LET p == push(appended,
                       unwrap(unwrap(fibonacci_heap_2.min_pointer).payload))
         IN  IF p.panic # NoPanic THEN Outcome(FibonacciHeap_init, None, p.panic)
             ELSE Outcome([p.self EXCEPT !.size = @ + (fibonacci_heap_2.size - 1)],
                          None, NoPanic)

\* ------------------------------------------------------- preorder dumps
\* The payloads of a tree in pre-order, each formatted with "{}".
RECURSIVE preorder_tokens(_)
RECURSIVE preorder_tokens_of_list(_)
preorder_tokens_of_list(list) ==
    IF list = <<>> THEN <<>>
    ELSE preorder_tokens(Head(list)) \o preorder_tokens_of_list(Tail(list))

preorder_tokens(node) ==
    (IF is_none(peek_payload(node)) THEN <<>>
     ELSE <<ToString(unwrap(peek_payload(node)))>>)
        \o preorder_tokens_of_list(node.children_list)

RECURSIVE join_with_space(_)
join_with_space(tokens) ==
    IF tokens = <<>> THEN ""
    ELSE IF Len(tokens) = 1 THEN Head(tokens)
    ELSE Head(tokens) \o " " \o join_with_space(Tail(tokens))

\* InternalTree::preorder: _preorder writes every payload followed by one
\* space, and trim() removes the last one.
InternalTree_preorder(internal_tree) ==
    join_with_space(preorder_tokens(internal_tree))

\* The "Tree k: ...\n" lines of FibonacciHeap::preorder, k counted from index.
RECURSIVE preorder_tree_lines(_, _)
preorder_tree_lines(list, index) ==
    IF list = <<>> THEN ""
    ELSE "Tree " \o ToString(index) \o ": " \o InternalTree_preorder(Head(list))
           \o "\n" \o preorder_tree_lines(Tail(list), index + 1)

FibonacciHeap_preorder(fibonacci_heap) ==
    (IF is_none(fibonacci_heap.min_pointer) THEN ""
     ELSE "Min: " \o InternalTree_preorder(unwrap(fibonacci_heap.min_pointer)) \o "\n")
        \o preorder_tree_lines(fibonacci_heap.children_list, 1)

\* ------------------------------------------------------------------ state
VARIABLES
    heap,      \* heap[i]: the two FibonacciHeap values the host owns
    ret,       \* what the last operation returned (pop: Option<T>)
    lastop,    \* the operation that made the last step
    panicked,  \* the message of the panic that ended the run, "" while running
    pushes,    \* pushes[i]: Some(k) while heap[i] is a fresh heap after k pushes
               \* and nothing else, None afterwards
    pushed,    \* the values pushed in the push-all-then-pop-all scenario
    popped,    \* the results of the pops of that scenario, in order
    internal_tree_1,  \* the arguments of a call of InternalTree::merge on its
    internal_tree_2,  \* own (Some(tree)), None when there is no such call
    merged_tree,      \* Some(what that call returned), None before it
    tree_calls        \* the calls of get_payload and on children_list_mut so far

treevars == <<internal_tree_1, internal_tree_2, merged_tree, tree_calls>>

vars == <<heap, ret, lastop, panicked, pushes, pushed, popped, treevars>>

InitHeaps ==
    /\ heap = [i \in Heaps |-> FibonacciHeap_init]
    /\ ret = None
    /\ lastop = "init"
    /\ panicked = NoPanic
    /\ pushes = [i \in Heaps |-> Some(0)]
    /\ pushed = <<>>
    /\ popped = <<>>

Init ==
    /\ InitHeaps
    /\ internal_tree_1 = None
    /\ internal_tree_2 = None
    /\ merged_tree = None
    /\ tree_calls = 0

\* The trees that InternalTree::init and at most one call of
\* InternalTree::merge build from the payloads.
SingletonTrees == {InternalTree_init(v) : v \in Vals}
MergedTrees(trees) == {InternalTree_merge(a, b) : a, b \in trees}
InputTrees == SingletonTrees \cup MergedTrees(SingletonTrees)

\* get_payload takes the payload out of the node and returns it; it panics
\* when the payload has been taken before.
get_payload(self) ==
    IF is_none(self.payload) THEN Outcome(self, None, PanicPayload)
    ELSE Outcome([self EXCEPT !.payload = None], Some(unwrap(self.payload)), NoPanic)

\* The calls a host makes on the list that children_list_mut hands out;
\* push_front and push_back take an owned tree.
ChildrenListCalls ==
    {[op |-> o, tree |-> None] : o \in {"clear", "pop_front", "pop_back"}}
      \cup {[op |-> o, tree |-> Some(t)] :
               o \in {"push_front", "push_back"}, t \in SingletonTrees}

\* children_list_mut gives the children list itself: the call changes the
\* list and leaves degree and payload as they were.  pop_front and pop_back
\* return the child they remove, None on an empty list.
children_list_mut(self, call) ==
    LET list == self.children_list IN
    IF call.op = "clear"
    THEN Outcome([self EXCEPT !.children_list = <<>>], None, NoPanic)
    ELSE IF call.op = "push_front"
    THEN Outcome([self EXCEPT !.children_list = <<unwrap(call.tree)>> \o list],
                 None, NoPanic)
    ELSE IF call.op = "push_back"
    THEN Outcome([self EXCEPT !.children_list = Append(list, unwrap(call.tree))],
                 None, NoPanic)
    ELSE IF list = <<>> THEN Outcome(self, None, NoPanic)
    ELSE IF call.op = "pop_front"
    THEN Outcome([self EXCEPT !.children_list = Tail(list)], Some(Head(list)), NoPanic)
    ELSE Outcome([self EXCEPT !.children_list = SubSeq(list, 1, Len(list) - 1)],
                 Some(list[Len(list)]), NoPanic)

\* The nodes of a tree, each named by the child indices that lead to it from
\* the root: the nodes a host reaches through children_list_mut().iter_mut().
RECURSIVE NodePaths(_)
NodePaths(t) ==
    {<<>>} \cup UNION {{<<k>> \o path : path \in NodePaths(t.children_list[k])} :
                        k \in 1..Len(t.children_list)}

RECURSIVE node_at(_, _)
node_at(t, path) ==
    IF path = <<>> THEN t ELSE node_at(t.children_list[Head(path)], Tail(path))

\* The tree t with the node at path replaced by node.
RECURSIVE with_node_at(_, _, _)
with_node_at(t, path, node) ==
    IF path = <<>> THEN node
    ELSE [t EXCEPT !.children_list[Head(path)] = with_node_at(@, Tail(path), node)]

\* Two trees are about to be merged.
InitTree ==
    /\ InitHeaps
    /\ \E a, b \in InputTrees : internal_tree_1 = Some(a) /\ internal_tree_2 = Some(b)
    /\ merged_tree = None
    /\ tree_calls = 0

\* The tree in slot k of a call of InternalTree::merge on its own.
tree_slot(k) == IF k = 1 THEN internal_tree_1 ELSE internal_tree_2

\* The host has the trees in hand: nothing has panicked and the trees have
\* not been moved into merge.
TreesInHand ==
    /\ panicked = NoPanic
    /\ ~is_none(internal_tree_1)
    /\ ~is_none(internal_tree_2)
    /\ is_none(merged_tree)
    /\ lastop # "tree_merge"

\* The tree in slot k becomes t, the other slot stays.
SetTreeSlot(k, t) ==
    /\ internal_tree_1' = IF k = 1 THEN Some(t) ELSE internal_tree_1
    /\ internal_tree_2' = IF k = 2 THEN Some(t) ELSE internal_tree_2

\* get_payload() on a node of the tree in slot k, before the merge.
TreeGetPayload(k, path) ==
    /\ TreesInHand
    /\ tree_calls < MaxTreeCalls
    /\ LET t == unwrap(tree_slot(k))
           o == get_payload(node_at(t, path))
       IN  /\ SetTreeSlot(k, with_node_at(t, path, o.self))
           /\ ret' = o.ret
           /\ panicked' = o.panic
    /\ tree_calls' = tree_calls + 1
    /\ lastop' = "get_payload"
    /\ UNCHANGED <<heap, pushes, pushed, popped, merged_tree>>

\* A call on children_list_mut() of a node of the tree in slot k, before the
\* merge.
TreeChildrenListMut(k, path, call) ==
    /\ TreesInHand
    /\ tree_calls < MaxTreeCalls
    /\ LET t == unwrap(tree_slot(k))
           o == children_list_mut(node_at(t, path), call)
       IN  /\ SetTreeSlot(k, with_node_at(t, path, o.self))
           /\ ret' = o.ret
    /\ tree_calls' = tree_calls + 1
    /\ lastop' = "children_list_mut"
    /\ UNCHANGED <<heap, panicked, pushes, pushed, popped, merged_tree>>

\* InternalTree::merge(internal_tree_1, internal_tree_2), called on its own.
\* The comparison panics when a payload has been taken, and merge then
\* returns nothing.
TreeMerge ==
    /\ TreesInHand
    /\ IF is_smaller_or_equal_panics(unwrap(internal_tree_1), unwrap(internal_tree_2))
       THEN /\ merged_tree' = None
            /\ panicked' = PanicCompare
       ELSE /\ merged_tree' = Some(InternalTree_merge(unwrap(internal_tree_1),
                                                      unwrap(internal_tree_2)))
            /\ panicked' = NoPanic
    /\ lastop' = "tree_merge"
    /\ UNCHANGED <<heap, ret, pushes, pushed, popped,
                   internal_tree_1, internal_tree_2, tree_calls>>

\* A call on heap[i] with outcome o.  A panic ends the run: no operation is
\* called after it.
Call(i, o, op) ==
    /\ panicked = NoPanic
    /\ heap' = [heap EXCEPT ![i] = o.self]
    /\ ret' = o.ret
    /\ panicked' = o.panic
    /\ lastop' = op

PushCall(i, v) ==
    /\ heap[1].size + heap[2].size < MaxSize
    /\ Call(i, push(heap[i], v), "push")
    /\ pushes' = [pushes EXCEPT ![i] = IF is_none(@) THEN None ELSE Some(unwrap(@) + 1)]

PopCall(i) ==
    /\ Call(i, pop(heap[i]), "pop")
    /\ pushes' = [pushes EXCEPT ![i] = None]

Push(i, v) == PushCall(i, v) /\ UNCHANGED <<pushed, popped, treevars>>

Pop(i) == PopCall(i) /\ UNCHANGED <<pushed, popped, treevars>>

\* consolidate is private to the module; its tests call it directly.
Consolidate(i) ==
    /\ Call(i, consolidate(heap[i]), "consolidate")
    /\ pushes' = [pushes EXCEPT ![i] = None]
    /\ UNCHANGED <<pushed, popped, treevars>>

\* merge(heap[i], heap[j]) consumes both operands: the result is kept in slot
\* i and slot j is given a fresh heap.
MergeCall(i, j) ==
    /\ i # j
    /\ panicked = NoPanic
    /\ LET o == merge(heap[i], heap[j]) IN
         /\ heap' = [heap EXCEPT ![i] = o.self, ![j] = FibonacciHeap_init]
         /\ ret' = o.ret
         /\ panicked' = o.panic
    /\ lastop' = "merge"
    /\ pushes' = [pushes EXCEPT ![i] = None, ![j] = Some(0)]
    /\ UNCHANGED <<pushed, popped, treevars>>

\* merge of two non-empty heaps
Merge(i, j) ==
    /\ ~is_empty(heap[i])
    /\ ~is_empty(heap[j])
    /\ MergeCall(i, j)

\* merge with an empty operand
MergeEmpty(i, j) ==
    /\ is_empty(heap[i]) \/ is_empty(heap[j])
    /\ MergeCall(i, j)

\* The scenario of the sorted-extraction property, on heap[1]: values are
\* pushed onto the fresh heap, then it is popped until one pop past empty.
ScenarioPush(v) ==
    /\ popped = <<>>
    /\ PushCall(1, v)
    /\ pushed' = Append(pushed, v)
    /\ UNCHANGED <<popped, treevars>>

ScenarioPop ==
    /\ Len(popped) <= Len(pushed)
    /\ PopCall(1)
    /\ popped' = Append(popped, ret')
    /\ UNCHANGED <<pushed, treevars>>

\* push and pop, in any interleaving
NextPP ==
    \/ \E i \in Heaps, v \in Vals : Push(i, v)
    \/ \E i \in Heaps : Pop(i)

\* push, pop and merge of non-empty heaps
Next ==
    \/ \E i \in Heaps, v \in Vals : Push(i, v)
    \/ \E i \in Heaps : Pop(i)
    \/ \E i, j \in Heaps : Merge(i, j)

\* push, pop, merge of non-empty heaps and consolidate
NextC ==
    \/ \E i \in Heaps, v \in Vals : Push(i, v)
    \/ \E i \in Heaps : Pop(i)
    \/ \E i, j \in Heaps : Merge(i, j)
    \/ \E i \in Heaps : Consolidate(i)

\* push, pop and merge of any two heaps
NextE ==
    \/ \E i \in Heaps, v \in Vals : Push(i, v)
    \/ \E i \in Heaps : Pop(i)
    \/ \E i, j \in Heaps : Merge(i, j)
    \/ \E i, j \in Heaps : MergeEmpty(i, j)

NextSorted ==
    \/ \E v \in Vals : ScenarioPush(v)
    \/ ScenarioPop

\* the calls on two trees: get_payload, children_list_mut, then merge
NextTree ==
    \/ \E k \in {1, 2} :
         \E path \in NodePaths(unwrap(tree_slot(k))) : TreeGetPayload(k, path)
    \/ \E k \in {1, 2}, call \in ChildrenListCalls :
         \E path \in NodePaths(unwrap(tree_slot(k))) :
           TreeChildrenListMut(k, path, call)
    \/ TreeMerge

Spec == Init /\ [][Next]_vars
SpecPP == Init /\ [][NextPP]_vars
SpecC == Init /\ [][NextC]_vars
SpecE == Init /\ [][NextE]_vars
SpecSorted == Init /\ [][NextSorted]_vars
SpecTree == InitTree /\ [][NextTree]_vars

\* ------------------------------------------------- observations of a heap
RECURSIVE tree_bag(_)
RECURSIVE forest_bag(_)
\* The bag of the payloads held in the trees of a list, descendants included.
forest_bag(list) ==
    IF list = <<>> THEN EmptyBag
    ELSE tree_bag(Head(list)) (+) forest_bag(Tail(list))

tree_bag(t) ==
    (IF is_none(t.payload) THEN EmptyBag ELSE SetToBag({unwrap(t.payload)}))
        (+) forest_bag(t.children_list)

\* The payloads held in a heap: the tree under min and the trees of the root list.
heap_bag(h) == forest_bag(h.min_pointer) (+) forest_bag(h.children_list)

node_count(h) == BagCardinality(heap_bag(h))

RECURSIVE seq_bag(_)
seq_bag(s) ==
    IF s = <<>> THEN EmptyBag ELSE SetToBag({Head(s)}) (+) seq_bag(Tail(s))

\* The payload at the min pointer of a heap that has one.
min_payload(h) == unwrap(unwrap(h.min_pointer).payload)

\* The least payload held in a heap that holds one.
least_payload(h) ==
    CHOOSE x \in BagToSet(heap_bag(h)) : \A y \in BagToSet(heap_bag(h)) : x <= y

Smaller(x, y) == IF x <= y THEN x ELSE y

\* ----------------------------------------------------------------- claims

\* C1 (SpecSorted): n values pushed onto a fresh heap come back from n pops in
\* non-decreasing order, as a permutation of the pushed values, without a
\* panic, and the pop after them returns None.
C1_SortedExtraction ==
    /\ panicked = NoPanic
    /\ \A k \in 1..Len(popped) : is_none(popped[k]) <=> k > Len(pushed)
    /\ \A k \in 1..(Len(popped) - 1) :
         is_none(popped[k + 1]) \/ unwrap(popped[k]) <= unwrap(popped[k + 1])
    /\ Len(popped) >= Len(pushed) =>
         seq_bag([k \in 1..Len(pushed) |-> unwrap(popped[k])]) = seq_bag(pushed)

\* An unsorted input of three or more values has been pushed and popped to the
\* end, with the one pop past the end.
C1_Witness ==
    /\ Len(pushed) >= 3
    /\ pushed[1] > pushed[2]
    /\ pushed[2] < pushed[3]
    /\ Len(popped) = Len(pushed) + 1

\* C2 (Spec): the size field of every heap equals the number of payload-holding
\* nodes it holds.
C2_SizeIsNodeCount ==
    \A i \in Heaps : size(heap[i]) = node_count(heap[i])

\* C3 (Spec): a merge of two non-empty heaps holds exactly the payloads of its
\* two operands.
C3_MergeConserves ==
    [][\A i, j \in Heaps :
         Merge(i, j) =>
           heap_bag(heap'[i]) = heap_bag(heap[i]) (+) heap_bag(heap[j])]_vars

\* C4 (Spec): a merge of two non-empty heaps returns a heap whose size is the
\* sum of the operands' sizes and whose min pointer holds the smaller of the
\* operands' minimums.
C4_MergeSizeLaw ==
    [][\A i, j \in Heaps :
         Merge(i, j) =>
           /\ panicked' = NoPanic
           /\ size(heap'[i]) = size(heap[i]) + size(heap[j])
           /\ min_payload(heap'[i]) =
                Smaller(least_payload(heap[i]), least_payload(heap[j]))]_vars

\* Two non-empty heaps have just been merged into one of three or more
\* elements with two or more trees in its root list.
C4_Witness ==
    /\ lastop = "merge"
    /\ panicked = NoPanic
    /\ \E i \in Heaps : size(heap[i]) >= 3 /\ Len(heap[i].children_list) >= 2

\* C5 (Spec): pop never panics; it returns None on an empty heap and a value
\* otherwise.
C5_PopTotal ==
    [][\A i \in Heaps :
         Pop(i) =>
           /\ panicked' = NoPanic
           /\ is_none(ret') <=> is_empty(heap[i])]_vars

\* C6 (Spec): the min pointer of a heap is None exactly when its size is 0.
C6_MinNoneIffEmpty ==
    \A i \in Heaps : is_none(heap[i].min_pointer) <=> size(heap[i]) = 0

\* C7 (SpecC): the payload at the root of the min tree is <= the payload at the
\* root of every tree of the root list.
C7_MinIsLeastRoot ==
    \A i \in Heaps :
      ~is_none(heap[i].min_pointer) =>
        \A k \in 1..Len(heap[i].children_list) :
          min_payload(heap[i]) <= unwrap(heap[i].children_list[k].payload)

\* A pop or a consolidation has left a min tree and a root beside it whose
\* payload is larger.
C7_Witness ==
    /\ lastop \in {"pop", "consolidate"}
    /\ \E i \in Heaps :
         /\ ~is_none(heap[i].min_pointer)
         /\ heap[i].children_list # <<>>
         /\ min_payload(heap[i]) < unwrap(heap[i].children_list[1].payload)

\* C8 (SpecPP): in any interleaving of push and pop, a pop on a non-empty heap
\* returns a value <= every payload that remains, and what remains is the
\* previous contents less one occurrence of that value.
C8_PopReturnsMinimum ==
    [][\A i \in Heaps :
         (Pop(i) /\ ~is_empty(heap[i])) =>
           /\ panicked' = NoPanic
           /\ ~is_none(ret')
           /\ \A x \in BagToSet(heap_bag(heap'[i])) : unwrap(ret') <= x
           /\ heap_bag(heap'[i]) (+) SetToBag({unwrap(ret')}) = heap_bag(heap[i])]_vars

\* A pop has returned a value and left two or more elements, one of them in a
\* child position.
C8_Witness ==
    /\ lastop = "pop"
    /\ ~is_none(ret)
    /\ \E i \in Heaps :
         /\ node_count(heap[i]) >= 2
         /\ ~is_none(heap[i].min_pointer)
         /\ degree(unwrap(heap[i].min_pointer)) >= 1

\* C9 (SpecE): a merge with an empty operand returns the other operand
\* unchanged (an empty heap when both are empty).
C9_MergeWithEmpty ==
    [][\A i, j \in Heaps :
         MergeEmpty(i, j) =>
           /\ panicked' = NoPanic
           /\ heap'[i] = (IF is_empty(heap[i]) THEN heap[j] ELSE heap[i])]_vars

\* C10 (Spec): a fresh heap has size k after k pushes and nothing else; every
\* push adds exactly 1 to size and every pop that returns a value takes
\* exactly 1 from it.
C10_SizeAccounting ==
    [][\A i \in Heaps :
         /\ ~is_none(pushes'[i]) => size(heap'[i]) = unwrap(pushes'[i])
         /\ (\E v \in Vals : Push(i, v)) => size(heap'[i]) = size(heap[i]) + 1
         /\ (Pop(i) /\ ~is_none(ret')) => size(heap'[i]) = size(heap[i]) - 1]_vars

\* A heap has had three pushes and nothing else, while the other heap has just
\* been popped with a value returned.
C10_Witness ==
    /\ lastop = "pop"
    /\ ~is_none(ret)
    /\ \E i \in Heaps : pushes[i] = Some(3)

\* C11 (Spec): a pop on an empty heap returns None without a panic and leaves
\* the heap as it was: size 0, min None, no roots, and the empty dump.
C11_PopOnEmptyChangesNothing ==
    [][\A i \in Heaps :
         (Pop(i) /\ is_empty(heap[i])) =>
           /\ panicked' = NoPanic
           /\ is_none(ret')
           /\ heap'[i] = heap[i]
           /\ size(heap'[i]) = 0
           /\ is_none(heap'[i].min_pointer)
           /\ heap'[i].children_list = <<>>
           /\ FibonacciHeap_preorder(heap'[i]) = ""]_vars

\* A heap that has been used and is empty again has just been popped, and the
\* pop returned None.
C11_Witness ==
    /\ lastop = "pop"
    /\ is_none(ret)
    /\ panicked = NoPanic
    /\ \E i \in Heaps : is_empty(heap[i]) /\ is_none(pushes[i])
    /\ \E i \in Heaps : ~is_empty(heap[i])

\* Every node of the tree t holds a payload <= the payload of each of its
\* children.
RECURSIVE heap_ordered(_)
heap_ordered(t) ==
    \A k \in 1..Len(t.children_list) :
      /\ ~is_smaller_or_equal_panics(t, t.children_list[k])
           => is_smaller_or_equal(t, t.children_list[k])
      /\ heap_ordered(t.children_list[k])

\* The trees of a heap: the one under min, then the root list.
trees_of(h) == h.min_pointer \o h.children_list

\* C12 (SpecC): every node of every tree, under min or in the root list, has a
\* payload <= the payload of each of its children.
C12_HeapOrder ==
    \A i \in Heaps :
      \A k \in 1..Len(trees_of(heap[i])) : heap_ordered(trees_of(heap[i])[k])

\* A heap holds a tree of degree 2 or more whose last child, itself a parent,
\* has a larger payload than the root.
C12_Witness ==
    \E i \in Heaps :
      \E k \in 1..Len(trees_of(heap[i])) :
        LET t == trees_of(heap[i])[k] IN
          /\ degree(t) >= 2
          /\ unwrap(t.payload) < unwrap(t.children_list[2].payload)
          /\ degree(t.children_list[2]) >= 1

\* No two trees of the heap h have the same root degree.
distinct_root_degrees(h) ==
    \A a, b \in 1..Len(trees_of(h)) :
      a # b => degree(trees_of(h)[a]) # degree(trees_of(h)[b])

\* C13 (SpecC): when consolidate has run on a non-empty heap, called directly
\* or by a pop that leaves the heap non-empty, no two of its trees (the min
\* tree and the root-list trees) have the same root degree.
C13_DistinctDegreesAfterConsolidate ==
    [][\A i \in Heaps :
         ((Consolidate(i) \/ Pop(i)) /\ panicked' = NoPanic /\ ~is_empty(heap'[i]))
           => distinct_root_degrees(heap'[i])]_vars

\* A consolidation has left two trees, of degrees 2 and 0.
C13_Witness ==
    /\ lastop \in {"pop", "consolidate"}
    /\ panicked = NoPanic
    /\ \E i \in Heaps :
         /\ Len(trees_of(heap[i])) = 2
         /\ {degree(trees_of(heap[i])[1]), degree(trees_of(heap[i])[2])} = {0, 2}

\* floor(log_phi(n)) + 1 with phi = 1.61803, for n in 1..32.
degree_bound_table ==
    << 1, 2, 3, 3, 4, 4, 5, 5, 5, 5, 5, 6, 6, 6, 6, 6,
       6, 7, 7, 7, 7, 7, 7, 7, 7, 7, 7, 7, 7, 8, 8, 8 >>

degree_bound(n) == degree_bound_table[n]

\* C14 (SpecC): when consolidate has run on a heap of size n >= 1, called
\* directly or by a pop that leaves the heap non-empty, the root degree of the
\* min tree and of every root-list tree is at most floor(log_phi(n)) + 1.
C14_DegreeBound ==
    [][\A i \in Heaps :
         ((Consolidate(i) \/ Pop(i)) /\ panicked' = NoPanic /\ ~is_empty(heap'[i]))
           => \A k \in 1..Len(trees_of(heap'[i])) :
                degree(trees_of(heap'[i])[k]) <= degree_bound(size(heap'[i]))]_vars

\* A consolidation has left a heap of size 4 or more whose min tree has
\* degree 2.
C14_Witness ==
    /\ lastop \in {"pop", "consolidate"}
    /\ panicked = NoPanic
    /\ \E i \in Heaps :
         /\ size(heap[i]) >= 4
         /\ ~is_none(heap[i].min_pointer)
         /\ degree(unwrap(heap[i].min_pointer)) = 2

\* C15 (Spec): consolidate never indexes its bucket array at or past its
\* length floor(log_phi(size) + 1), at the first access of a tree's degree and
\* after every carry step d += 1: no run ends in an index-out-of-bounds panic.
C15_BucketIndexInRange ==
    panicked # PanicIndex

\* A pop has consolidated four singletons into one tree of degree 2: two
\* carry steps in a bucket array of length 3.
C15_Witness ==
    /\ lastop = "pop"
    /\ panicked = NoPanic
    /\ \E i \in Heaps :
         /\ size(heap[i]) = 4
         /\ heap[i].children_list = <<>>
         /\ ~is_none(heap[i].min_pointer)
         /\ degree(unwrap(heap[i].min_pointer)) = 2
         /\ array_size(size(heap[i])) = 3

\* winner is parent with child appended as its last child: one more child,
\* degree one higher, payload and earlier children as they were, and child
\* itself unchanged.
is_parent_with_last_child(result, parent, child) ==
    /\ result.payload = parent.payload
    /\ result.degree = parent.degree + 1
    /\ Len(result.children_list) = Len(parent.children_list) + 1
    /\ \A k \in 1..Len(parent.children_list) :
         result.children_list[k] = parent.children_list[k]
    /\ result.children_list[Len(result.children_list)] = child

\* C16 (SpecTree): InternalTree::merge(a, b) returns a with b appended as its
\* last child when a's payload <= b's payload, ties included, and b with a
\* appended as its last child otherwise: the parent's degree is one higher,
\* its earlier children and the child's subtree are as they were.  merge
\* returns exactly when both payloads are present; otherwise the comparison
\* panics.
C16_TreeMerge ==
    lastop = "tree_merge" =>
      LET a == unwrap(internal_tree_1)
          b == unwrap(internal_tree_2)
      IN  IF is_none(a.payload) \/ is_none(b.payload)
          THEN is_none(merged_tree) /\ panicked = PanicCompare
          ELSE /\ ~is_none(merged_tree)
               /\ panicked = NoPanic
               /\ IF unwrap(a.payload) <= unwrap(b.payload)
                  THEN is_parent_with_last_child(unwrap(merged_tree), a, b)
                  ELSE is_parent_with_last_child(unwrap(merged_tree), b, a)

\* Two trees of equal payload have been merged: the first had a child from
\* an earlier merge and a second child pushed through children_list_mut, the
\* second had a child of its own.
C16_Witness ==
    /\ ~is_none(merged_tree)
    /\ unwrap(internal_tree_1).payload = unwrap(internal_tree_2).payload
    /\ degree(unwrap(internal_tree_1)) = 1
    /\ Len(unwrap(internal_tree_1).children_list) = 2
    /\ degree(unwrap(internal_tree_2)) = 1
    /\ Len(unwrap(internal_tree_2).children_list) = 1

\* C17 (Spec): a push of v on a non-empty heap does not consolidate.  When
\* v <= the minimum, ties included, the new singleton becomes min and the old
\* min tree goes to the back of the root list; otherwise the new singleton
\* goes to the back of the root list and min stays.  The trees that were
\* there keep their shape and order, and the root list grows by one.
C17_PushFrame ==
    [][\A i \in Heaps, v \in Vals :
         (Push(i, v) /\ ~is_empty(heap[i])) =>
           /\ panicked' = NoPanic
           /\ ~is_none(heap[i].min_pointer)
           /\ Len(heap'[i].children_list) = Len(heap[i].children_list) + 1
           /\ \A k \in 1..Len(heap[i].children_list) :
                heap'[i].children_list[k] = heap[i].children_list[k]
           /\ IF v <= min_payload(heap[i])
              THEN /\ heap'[i].min_pointer = Some(InternalTree_init(v))
                   /\ heap'[i].children_list[Len(heap'[i].children_list)]
                        = unwrap(heap[i].min_pointer)
              ELSE /\ heap'[i].min_pointer = heap[i].min_pointer
                   /\ heap'[i].children_list[Len(heap'[i].children_list)]
                        = InternalTree_init(v)]_vars

\* A push of a payload equal to the minimum has made the new singleton min
\* and moved the old min tree, with its children, to the back of the root
\* list.
C17_Witness ==
    /\ lastop = "push"
    /\ \E i \in Heaps :
         /\ ~is_none(heap[i].min_pointer)
         /\ degree(unwrap(heap[i].min_pointer)) = 0
         /\ heap[i].children_list # <<>>
         /\ LET last == heap[i].children_list[Len(heap[i].children_list)] IN
              /\ degree(last) >= 1
              /\ last.payload = unwrap(heap[i].min_pointer).payload

\* C18 (Spec): the root list of merge(h1, h2), both non-empty, is h1's roots,
\* then h2's roots, then one more tree.  When h2.min <= h1.min, ties included,
\* h2's min tree is the new min and h1's former min tree is that last root;
\* otherwise h1's min tree stays min and the last root carries h2.min's
\* payload.
C18_MergeRootList ==
    [][\A i, j \in Heaps :
         Merge(i, j) =>
           LET h1 == heap[i]
               h2 == heap[j]
               m == heap'[i]
               joined == h1.children_list \o h2.children_list
           IN  /\ panicked' = NoPanic
               /\ Len(m.children_list) = Len(joined) + 1
               /\ SubSeq(m.children_list, 1, Len(joined)) = joined
               /\ IF min_payload(h2) <= min_payload(h1)
                  THEN /\ m.min_pointer = h2.min_pointer
                       /\ m.children_list[Len(joined) + 1] = unwrap(h1.min_pointer)
                  ELSE /\ m.min_pointer = h1.min_pointer
                       /\ m.children_list[Len(joined) + 1].payload
                            = unwrap(h2.min_pointer).payload]_vars

\* A merge has left a min tree with a child, a root taken over from an
\* operand, and a former min tree with a child as the last root.
C18_Witness ==
    /\ lastop = "merge"
    /\ panicked = NoPanic
    /\ \E i \in Heaps :
         /\ ~is_none(heap[i].min_pointer)
         /\ degree(unwrap(heap[i].min_pointer)) = 1
         /\ Len(heap[i].children_list) = 2
         /\ degree(heap[i].children_list[2]) = 1

\* Every node of the tree t has a payload and a degree field equal to the
\* length of its children list.
RECURSIVE well_formed(_)
well_formed(t) ==
    /\ ~is_none(t.payload)
    /\ t.degree = Len(t.children_list)
    /\ \A k \in 1..Len(t.children_list) : well_formed(t.children_list[k])

\* C19 (SpecC): every node held in a heap, under min or in the root list, has
\* a degree field equal to the length of its children list and has its
\* payload present.
C19_DegreeAndPayload ==
    \A i \in Heaps :
      \A k \in 1..Len(trees_of(heap[i])) : well_formed(trees_of(heap[i])[k])

\* A direct consolidation has left a tree of degree 2 beside a singleton.
C19_Witness ==
    /\ lastop = "consolidate"
    /\ \E i \in Heaps :
         /\ ~is_none(heap[i].min_pointer)
         /\ degree(unwrap(heap[i].min_pointer)) = 2
         /\ Len(heap[i].children_list) = 1

RECURSIVE tree_nodes(_)
RECURSIVE forest_nodes(_)
\* The number of nodes of the trees of a list.
forest_nodes(list) ==
    IF list = <<>> THEN 0 ELSE tree_nodes(Head(list)) + forest_nodes(Tail(list))

tree_nodes(t) == 1 + forest_nodes(t.children_list)

\* t is a binomial tree: with root degree d it has 2^d nodes, and its
\* children, in list order, are binomial trees of degrees 0, 1, ..., d - 1.
RECURSIVE binomial(_)
binomial(t) ==
    /\ Len(t.children_list) = degree(t)
    /\ tree_nodes(t) = 2 ^ degree(t)
    /\ \A k \in 1..Len(t.children_list) :
         /\ degree(t.children_list[k]) = k - 1
         /\ binomial(t.children_list[k])

\* The list that the consolidate called by pop(h) drains, front first: the
\* root list followed by the children of the min node.
pop_drain_input(h) ==
    h.children_list \o unwrap(h.min_pointer).children_list

\* Every merge that carry(x, d, a) makes is of two trees of equal degree.
RECURSIVE carry_merges_equal(_, _, _)
carry_merges_equal(x, d, a) ==
    IF d >= Len(a) THEN TRUE
    ELSE IF is_none(a[d + 1]) THEN TRUE
    ELSE /\ degree(x) = degree(unwrap(a[d + 1]))
         /\ carry_merges_equal(InternalTree_merge(x, unwrap(a[d + 1])), d + 1,
                               [a EXCEPT ![d + 1] = None])

\* Every merge that drain(list, a) makes is of two trees of equal degree.
RECURSIVE drain_merges_equal(_, _)
drain_merges_equal(list, a) ==
    IF list = <<>> THEN TRUE
    ELSE /\ carry_merges_equal(Head(list), degree(Head(list)), a)
         /\ LET c == carry(Head(list), degree(Head(list)), a) IN
              c.oob \/ drain_merges_equal(Tail(list), c.a)

\* C20 (Spec): every tree of a heap, and every subtree, is binomial: root
\* degree d, 2^d nodes, children of degrees 0, 1, ..., d - 1 in list order;
\* and the consolidation that a pop of the heap runs merges only trees of
\* equal degree.
C20_BinomialShape ==
    \A i \in Heaps :
      /\ \A k \in 1..Len(trees_of(heap[i])) : binomial(trees_of(heap[i])[k])
      /\ (size(heap[i]) > 1 /\ ~is_none(heap[i].min_pointer)) =>
           drain_merges_equal(pop_drain_input(heap[i]),
                              [k \in 1..array_size(size(heap[i]) - 1) |-> None])

\* A merge has produced a heap that holds a tree of degree 2, of four nodes,
\* whose children have degrees 0 and 1.
C20_Witness ==
    /\ lastop = "merge"
    /\ panicked = NoPanic
    /\ \E i \in Heaps :
         \E k \in 1..Len(trees_of(heap[i])) :
           LET t == trees_of(heap[i])[k] IN
             /\ degree(t) = 2
             /\ tree_nodes(t) = 4
             /\ degree(t.children_list[1]) = 0
             /\ degree(t.children_list[2]) = 1

====
